---- MODULE Spec2Model ----
(***************************************************************************)
(* A model of cli_progress (src/src/lib.rs): the display tree, the render  *)
(* thread spawned by CLIDisplayManager::new, CLIDisplayManager::modify,    *)
(* the CLIModificationElement operations, Drop for CLIDisplayManager and   *)
(* the terminal the frames are painted on.                                 *)
(*                                                                         *)
(* The terminal is a column of rows and a cursor row.  A row holds the     *)
(* tokens printed on it since it was last erased; columns are not          *)
(* modelled, so the carriage returns of lines 117 and 173 change nothing.  *)
(* The box-drawing glyphs U+2514 U+2574 and U+251C U+2574 are written      *)
(* "L-" and "+-".                                                          *)
(***************************************************************************)
EXTENDS Integers, Sequences, FiniteSets, TLC

VARIABLES
    root,            \* CLIDisplayManager.root: the tree behind the RwLock
    mutex,           \* holder of CLIDisplayManager.mutex: "free", "render", "modify"
    readers,         \* threads holding a read guard of the RwLock
    stop,            \* CLIDisplayManager.stop
    tick_counter,    \* CLIDisplayManager.tick_counter
    tick_rate,       \* the tick_rate argument of CLIDisplayManager::new
    rpc,             \* position of the render thread
    cpc,             \* position of the controlling thread
    additions,       \* CLIModificationElement.additions
    screen,          \* terminal rows
    cursor,          \* terminal cursor row
    cursor_visible,  \* terminal cursor visibility
    size0,           \* history: node count when the current modify call began
    printed,         \* history: the texts erasing_println! has emitted, in order
    nops,            \* history: operations the current callback has made
    trail,           \* history: the operations of the current callback, in order
    undo,            \* history: the handle states before the insertions not yet removed
    pushes,          \* history: push and make_sub calls so far
    pops,            \* history: pop calls so far that removed a node
    poisoned,        \* the poison flag of CLIDisplayManager.mutex
    frames,          \* history: frames the render thread has painted
    lap,             \* history: increments and waits since its last frame
    late,            \* history: frames it has begun with the stop flag set
    woken,           \* history: what ended the wait it is returning from
    emitted          \* history: erase steps of the frame of the current call

vars == <<root, mutex, readers, stop, tick_counter, tick_rate, rpc, cpc,
          additions, screen, cursor, cursor_visible, size0, printed, nops,
          trail, undo, pushes, pops, poisoned, frames, lap, late, woken,
          emitted>>

(***************************************************************************)
(* Bounds.                                                                 *)
(***************************************************************************)
MaxNodes == 3

MaxOps == 3

MaxPrints == 1

MaxTick == 2

MaxTreeNodes == 4

MaxTreeOps == 4

MaxPushes == 4

\* the largest tick counter a progress bar is painted with
MaxBarTick == 3

MaxRow == MaxPrints + MaxNodes

Rows == 0..MaxRow

TickRates == {0, 10}

NodeTypes ==
    { [kind |-> "Message", text |-> "a"],
      [kind |-> "SpinningMessage", text |-> "b"] }

Texts == {"t"}

Max(a, b) == IF a > b THEN a ELSE b

(***************************************************************************)
(* The tree.                                                               *)
(***************************************************************************)
New(node_type) == [node_type |-> node_type, sub_nodes |-> <<>>]

Last(s) == s[Len(s)]

Front(s) == SubSeq(s, 1, Len(s) - 1)

RECURSIVE Size(_)
Size(node) ==
    LET RECURSIVE Sum(_)
        Sum(i) == IF i > Len(node.sub_nodes) THEN 0
                  ELSE Size(node.sub_nodes[i]) + Sum(i + 1)
    IN 1 + Sum(1)

\* make_sub that walks to the first child instead of the last.
RECURSIVE MakeSubNode_First(_, _)
MakeSubNode_First(last_node, node_type) ==
    IF Len(last_node.sub_nodes) # 0
    THEN [last_node EXCEPT !.sub_nodes[1] =
              MakeSubNode_First(Head(last_node.sub_nodes), node_type)]
    ELSE [last_node EXCEPT !.sub_nodes = Append(@, New(node_type))]

\* make_sub that stops one node early, where push stops.
RECURSIVE MakeSubNode_Sibling(_, _)
MakeSubNode_Sibling(last_node, node_type) ==
    IF Len(last_node.sub_nodes) # 0 /\ Len(Last(last_node.sub_nodes).sub_nodes) # 0
    THEN [last_node EXCEPT !.sub_nodes[Len(last_node.sub_nodes)] =
              MakeSubNode_Sibling(Last(last_node.sub_nodes), node_type)]
    ELSE [last_node EXCEPT !.sub_nodes = Append(@, New(node_type))]

\* make_sub, lines 254-260: walk to the last child while the node has
\* children, then push the new node there.
RECURSIVE MakeSubNode(_, _)
MakeSubNode(last_node, node_type) ==
    IF Len(last_node.sub_nodes) # 0
    THEN [last_node EXCEPT !.sub_nodes[Len(last_node.sub_nodes)] =
              MakeSubNode(Last(last_node.sub_nodes), node_type)]
    ELSE [last_node EXCEPT !.sub_nodes = Append(@, New(node_type))]

\* push that walks on while the node has children, as make_sub does.
PushMapped_Deepest(mapped_node, node_type) == MakeSubNode(mapped_node, node_type)

\* push, lines 236-242: walk to the last child while that last child has
\* children, then push the new node there.
RECURSIVE PushMapped(_, _)
PushMapped(mapped_node, node_type) ==
    IF Len(Last(mapped_node.sub_nodes).sub_nodes) # 0
    THEN [mapped_node EXCEPT !.sub_nodes[Len(mapped_node.sub_nodes)] =
              PushMapped(Last(mapped_node.sub_nodes), node_type)]
    ELSE [mapped_node EXCEPT !.sub_nodes = Append(@, New(node_type))]

\* push, lines 229-242.
PushNode(node, node_type) ==
    IF Len(node.sub_nodes) = 0
    THEN MakeSubNode(node, node_type)
    ELSE PushMapped(node, node_type)

\* pop that removes the first child instead of the last.
RECURSIVE PopMapped_First(_)
PopMapped_First(mapped_node) ==
    IF Len(Last(mapped_node.sub_nodes).sub_nodes) # 0
    THEN [mapped_node EXCEPT !.sub_nodes[Len(mapped_node.sub_nodes)] =
              PopMapped_First(Last(mapped_node.sub_nodes))]
    ELSE [mapped_node EXCEPT !.sub_nodes = Tail(@)]

\* pop, lines 211-217.
RECURSIVE PopMapped(_)
PopMapped(mapped_node) ==
    IF Len(Last(mapped_node.sub_nodes).sub_nodes) # 0
    THEN [mapped_node EXCEPT !.sub_nodes[Len(mapped_node.sub_nodes)] =
              PopMapped(Last(mapped_node.sub_nodes))]
    ELSE [mapped_node EXCEPT !.sub_nodes = Front(@)]

\* pop, lines 206-217.
PopNode(node) ==
    IF Len(node.sub_nodes) = 0 THEN node ELSE PopMapped(node)

\* pop that does not take back its decrement on a root-only tree.
PopAdditions_NoRestore(node, a) == a - 1

\* pop, lines 199-209: the counter after the call.
PopAdditions(node, a) ==
    IF Len(node.sub_nodes) = 0 THEN (a - 1) + 1 ELSE a - 1

\* push, lines 222-233: the counter after the call.
PushAdditions(node, a) ==
    IF Len(node.sub_nodes) = 0 THEN ((a + 1) - 1) + 1 ELSE a + 1

\* make_sub, line 247.
MakeSubAdditions(a) == a + 1

\* replace_root that puts a new node in the place of the root.
ReplaceRootNode_Fresh(node, node_type) == New(node_type)

\* replace_root, lines 265-268.
ReplaceRootNode(node, node_type) == [node EXCEPT !.node_type = node_type]

(***************************************************************************)
(* The terminal.                                                           *)
(***************************************************************************)
Blank == <<>>

Spinner == <<"/", "-", "\\", "|">>

\* The values of the AtomicU8 behind a ProgressBar, line 328.
Cells == 0..255

Clamp(x, lo, hi) == IF x < lo THEN lo ELSE IF x > hi THEN hi ELSE x

\* for _ in from..to { write!(lock, c) }: the characters written.
Repeat(c, from, to) == IF to <= from THEN <<>> ELSE [i \in 1..(to - from) |-> c]

\* A bar whose loop of blanks runs over progress..20.
ProgressBarDisplay_Wide(cell, tick) ==
    LET progress == Clamp(cell \div 5, 0, 20)
    IN <<"[">>
       \o Repeat("#", 0, progress)
       \o (IF progress # 20 THEN <<Spinner[(tick % 4) + 1]>> ELSE <<>>)
       \o Repeat(" ", progress, 20)
       \o <<"]">>

\* CLIDisplayNodeType::display, lines 338-357: the characters of the bar.
ProgressBarDisplay(cell, tick) ==
    LET progress == Clamp(cell \div 5, 0, 20)
    IN <<"[">>
       \o Repeat("#", 0, progress)
       \o (IF progress # 20 THEN <<Spinner[(tick % 4) + 1]>> ELSE <<>>)
       \o Repeat(" ", progress, 19)
       \o <<"]">>

\* CLIDisplayNodeType::display, lines 332-359.
TypeDisplay(node_type, tick) ==
    IF node_type.kind = "Message"
    THEN <<node_type.text>>
    ELSE IF node_type.kind = "SpinningMessage"
    THEN <<node_type.text, " ", Spinner[(tick % 4) + 1]>>
    ELSE ProgressBarDisplay(node_type.progress, tick)

\* CLIDisplayNode::display, lines 286-299: the row of one node.
Line(depth, tick, last, node_type) ==
    (IF depth # 0
     THEN [i \in 1..(depth - 1) |-> "  "] \o <<IF last THEN "L-" ELSE "+-">>
     ELSE <<>>)
    \o TypeDisplay(node_type, tick)

\* CLIDisplayNode::display, lines 285-304: the rows printed, top to bottom.
RECURSIVE Display(_, _, _, _)
Display(node, depth, tick, last) ==
    LET RECURSIVE Subs(_)
        Subs(index) ==
            IF index > Len(node.sub_nodes) THEN <<>>
            ELSE Display(node.sub_nodes[index], depth + 1, tick,
                         index = Len(node.sub_nodes)) \o Subs(index + 1)
    IN <<Line(depth, tick, last, node.node_type)>> \o Subs(1)

\* Every row of Display is erased, written and ended by a newline.
PrintRows(scr, cur, lines) ==
    [r \in Rows |-> IF r >= cur /\ r < cur + Len(lines)
                    THEN lines[r - cur + 1] ELSE scr[r]]

CursorUp(cur) == Max(cur - 1, 0)

\* A go_back that does not visit the sub-nodes.
GoBack_RootOnly(node, cur) == CursorUp(cur)

\* CLIDisplayNode::go_back, lines 306-312: the cursor row afterwards.
RECURSIVE GoBack(_, _)
GoBack(node, cur) ==
    LET RECURSIVE Subs(_, _)
        Subs(index, c) ==
            IF index > Len(node.sub_nodes) THEN c
            ELSE Subs(index + 1, GoBack(node.sub_nodes[index], c))
    IN CursorUp(Subs(1, cur))

\* modify, line 149.
RemovedLines(a) == Max(0 - a, 0)

\* An erase loop that makes one round too few.
EraseRows_Short(scr, cur, removed_lines) ==
    [r \in Rows |-> IF r >= cur /\ r < cur + removed_lines - 1 THEN Blank ELSE scr[r]]

\* modify, lines 159-165: the rows erased.
EraseRows(scr, cur, removed_lines) ==
    [r \in Rows |-> IF r >= cur /\ r < cur + removed_lines THEN Blank ELSE scr[r]]

\* An erase sequence that moves up once per erased line.
EraseOutput_FullCycles(removed_lines) ==
    LET RECURSIVE Erase(_)
        Erase(i) ==
            IF i > removed_lines THEN <<>>
            ELSE <<"ERASE_LINE">>
                 \o (IF i # removed_lines THEN <<"\n">> ELSE <<>>)
                 \o Erase(i + 1)
    IN Erase(1) \o Repeat("CURSOR_UP", 0, removed_lines)

\* modify, lines 159-169: what the two loops write.
EraseOutput(removed_lines) ==
    LET RECURSIVE Erase(_)
        Erase(i) ==
            IF i > removed_lines THEN <<>>
            ELSE <<"ERASE_LINE">>
                 \o (IF i # removed_lines THEN <<"\n">> ELSE <<>>)
                 \o Erase(i + 1)
    IN Erase(1) \o Repeat("CURSOR_UP", 1, removed_lines)

\* how many times c occurs in output
Count(output, c) == Cardinality({i \in 1..Len(output) : output[i] = c})

Steps(output) ==
    [erase |-> Count(output, "ERASE_LINE"),
     newline |-> Count(output, "\n"),
     up |-> Count(output, "CURSOR_UP")]

NoSteps == Steps(<<>>)

\* modify, lines 159-169: the cursor row after the newlines and the cursor-ups.
RECURSIVE UpTimes(_, _)
UpTimes(cur, n) == IF n <= 0 THEN cur ELSE UpTimes(CursorUp(cur), n - 1)

EraseCursor(cur, removed_lines) ==
    UpTimes(cur + Max(removed_lines - 1, 0), removed_lines - 1)

hist == <<trail, undo, pushes, pops>>

term == <<screen, cursor, cursor_visible, printed>>

rhist == <<frames, lap, late, woken, emitted>>

(***************************************************************************)
(* CLIDisplayManager::new, lines 76-136.                                   *)
(***************************************************************************)
Init ==
    /\ root \in {New(nt) : nt \in NodeTypes}
    /\ mutex = "free"
    /\ readers = {}
    /\ stop = FALSE
    /\ tick_counter = 0
    /\ tick_rate \in TickRates
    /\ rpc = "spawned"
    /\ cpc = "idle"
    /\ additions = 0
    /\ screen = [r \in Rows |-> Blank]
    /\ cursor = 0
    /\ cursor_visible = FALSE
    /\ size0 = 1
    /\ printed = <<>>
    /\ nops = 0
    /\ trail = <<>>
    /\ undo = <<>>
    /\ pushes = 0
    /\ pops = 0
    /\ poisoned = FALSE
    /\ frames = 0
    /\ lap = [ticks |-> 0, waits |-> 0]
    /\ late = 0
    /\ woken = "none"
    /\ emitted = NoSteps

(***************************************************************************)
(* The render thread, lines 98-131.                                        *)
(***************************************************************************)
\* lines 99-101: mutex.lock().expect(..) of a mutex that is not poisoned.
RenderLock ==
    /\ rpc = "spawned"
    /\ mutex = "free"
    /\ ~poisoned
    /\ mutex' = "render"
    /\ rpc' = "read0"
    /\ UNCHANGED <<poisoned, rhist, root, readers, stop, tick_counter, tick_rate, cpc, additions,
                   size0, nops, term, hist>>

\* lines 103-105 and 111-113: root.read().
RenderRead ==
    /\ rpc \in {"read0", "read"}
    /\ readers' = readers \cup {"render"}
    /\ rpc' = IF rpc = "read0" THEN "display0" ELSE "display"
    /\ late' = IF stop THEN late + 1 ELSE late
    /\ UNCHANGED <<emitted, poisoned, frames, lap, woken, root, mutex, stop, tick_counter, tick_rate, cpc, additions,
                   size0, nops, term, hist>>

\* A loop frame after which the tick counter is not incremented.
RenderFrame_NoTick ==
    /\ rpc \in {"display0", "display"}
    /\ LET lines == Display(root, 0, tick_counter, TRUE)
       IN /\ screen' = PrintRows(screen, cursor, lines)
          /\ cursor' = GoBack(root, cursor + Len(lines))
    /\ readers' = readers \ {"render"}
    /\ rpc' = IF rpc = "display0" THEN "check" ELSE "wait"
    /\ frames' = frames + 1
    /\ lap' = [ticks |-> 0, waits |-> 0]
    /\ UNCHANGED <<emitted, poisoned, late, woken, root, mutex, stop, tick_counter, tick_rate, cpc, additions,
                   size0, nops, cursor_visible, printed, hist>>

\* lines 106-108 and 114-117: node.display(0, tick_counter.load(Relaxed),
\* true); node.go_back(); drop(node).
RenderFrame ==
    /\ rpc \in {"display0", "display"}
    /\ LET lines == Display(root, 0, tick_counter, TRUE)
       IN /\ screen' = PrintRows(screen, cursor, lines)
          /\ cursor' = GoBack(root, cursor + Len(lines))
    /\ readers' = readers \ {"render"}
    /\ rpc' = IF rpc = "display0" THEN "check" ELSE "tick"
    /\ frames' = frames + 1
    /\ lap' = [ticks |-> 0, waits |-> 0]
    /\ UNCHANGED <<emitted, poisoned, late, woken, root, mutex, stop, tick_counter, tick_rate, cpc, additions,
                   size0, nops, cursor_visible, printed, hist>>

\* A loop condition with the stop flag inverted.
RenderCheck_Inverted ==
    /\ rpc = "check"
    /\ IF ~stop
       THEN /\ rpc' = "done"
            /\ mutex' = "free"
       ELSE /\ rpc' = "read"
            /\ mutex' = mutex
    /\ UNCHANGED <<poisoned, rhist, root, readers, stop, tick_counter, tick_rate, cpc, additions,
                   size0, nops, term, hist>>

\* line 110: while !stop.load(Relaxed); the guard is dropped when the
\* closure returns.
RenderCheck ==
    /\ rpc = "check"
    /\ IF stop
       THEN /\ rpc' = "done"
            /\ mutex' = "free"
       ELSE /\ rpc' = "read"
            /\ mutex' = mutex
    /\ UNCHANGED <<poisoned, rhist, root, readers, stop, tick_counter, tick_rate, cpc, additions,
                   size0, nops, term, hist>>

\* line 119: tick_counter.fetch_add(1, Relaxed).
RenderTick ==
    /\ rpc = "tick"
    /\ tick_counter' = tick_counter + 1
    /\ rpc' = "wait"
    /\ lap' = [lap EXCEPT !.ticks = @ + 1]
    /\ UNCHANGED <<emitted, poisoned, frames, late, woken, root, mutex, readers, stop, tick_rate, cpc, additions,
                   size0, nops, term, hist>>

\* A wait that keeps the mutex locked while the thread sleeps.
RenderWait_KeepsMutex ==
    /\ rpc = "wait"
    /\ rpc' = "parked"
    /\ woken' = "none"
    /\ UNCHANGED <<emitted, poisoned, frames, lap, late, root, mutex, readers, stop, tick_counter, tick_rate, cpc,
                   additions, size0, nops, term, hist>>

\* lines 120-129: cv.wait_timeout / cv.wait release the mutex and park.
RenderWait ==
    /\ rpc = "wait"
    /\ mutex' = "free"
    /\ rpc' = "parked"
    /\ woken' = "none"
    /\ UNCHANGED <<emitted, poisoned, frames, lap, late, root, readers, stop, tick_counter, tick_rate, cpc, additions,
                   size0, nops, term, hist>>

\* A timeout that also ends the wait of a manager whose tick rate is zero.
WakeTimeout_AnyRate ==
    /\ rpc = "parked"
    /\ tick_counter < MaxTick \/ stop
    /\ rpc' = "reacquire"
    /\ woken' = "timeout"
    /\ UNCHANGED <<emitted, poisoned, frames, lap, late, root, mutex, readers, stop, tick_counter, tick_rate, cpc,
                   additions, size0, nops, term, hist>>

\* lines 121-124: the timeout of wait_timeout elapses.  The loop makes at
\* most MaxTick iterations before the stop flag is set.
WakeTimeout ==
    /\ rpc = "parked"
    /\ tick_rate # 0
    /\ tick_counter < MaxTick \/ stop
    /\ rpc' = "reacquire"
    /\ woken' = "timeout"
    /\ UNCHANGED <<emitted, poisoned, frames, lap, late, root, mutex, readers, stop, tick_counter, tick_rate, cpc,
                   additions, size0, nops, term, hist>>

\* lines 121-129: std::sync::Condvar may wake a waiter spuriously.
WakeSpurious ==
    /\ rpc = "parked"
    /\ tick_counter < MaxTick
    /\ rpc' = "reacquire"
    /\ woken' = "spurious"
    /\ UNCHANGED <<emitted, poisoned, frames, lap, late, root, mutex, readers, stop, tick_counter, tick_rate, cpc,
                   additions, size0, nops, term, hist>>

\* lines 121-129: the wait returns with the mutex locked again; expect(..)
\* passes when the mutex is not poisoned.
RenderReacquire ==
    /\ rpc = "reacquire"
    /\ mutex = "free"
    /\ ~poisoned
    /\ mutex' = "render"
    /\ rpc' = "check"
    /\ lap' = [lap EXCEPT !.waits = @ + 1]
    /\ UNCHANGED <<emitted, poisoned, frames, late, woken, root, readers, stop, tick_counter, tick_rate, cpc, additions,
                   size0, nops, term, hist>>

Render ==
    \/ RenderLock
    \/ RenderRead
    \/ RenderFrame
    \/ RenderCheck
    \/ RenderTick
    \/ RenderWait
    \/ WakeTimeout
    \/ WakeSpurious
    \/ RenderReacquire

(***************************************************************************)
(* CLIDisplayManager::modify, lines 139-177, and the operations of the     *)
(* CLIModificationElement its callback may call, lines 196-270, 362-373.   *)
(***************************************************************************)
\* line 139: the controlling thread calls modify.
ModifyCall ==
    /\ cpc = "idle"
    /\ cpc' = "lock"
    /\ UNCHANGED <<poisoned, rhist, root, mutex, readers, stop, tick_counter, tick_rate, rpc,
                   additions, size0, nops, term, hist>>

\* A modify that goes on without waiting for the mutex.
ModifyLock_NoWait ==
    /\ cpc = "lock"
    /\ mutex' = "modify"
    /\ additions' = 0
    /\ size0' = Size(root)
    /\ nops' = 0
    /\ cpc' = "callback"
    /\ UNCHANGED <<poisoned, rhist, root, readers, stop, tick_counter, tick_rate, rpc, term, hist>>

\* lines 140-145: self.mutex.lock(), then the handle with additions: 0.
ModifyLock ==
    /\ cpc = "lock"
    /\ mutex = "free"
    /\ mutex' = "modify"
    /\ additions' = 0
    /\ size0' = Size(root)
    /\ nops' = 0
    /\ cpc' = "callback"
    /\ UNCHANGED <<poisoned, rhist, root, readers, stop, tick_counter, tick_rate, rpc, term, hist>>

\* The write guard of lines 201-204, 224-227, 249-252 and 265-267 is taken
\* and released within one operation.
WriteLockFree == readers = {}

\* lines 198-218.
Pop ==
    /\ cpc = "callback"
    /\ nops < MaxOps
    /\ WriteLockFree
    /\ root' = PopNode(root)
    /\ additions' = PopAdditions(root, additions)
    /\ nops' = nops + 1
    /\ UNCHANGED <<poisoned, rhist, mutex, readers, stop, tick_counter, tick_rate, rpc, cpc,
                   size0, term, hist>>

\* lines 221-243.
Push(node_type) ==
    /\ cpc = "callback"
    /\ nops < MaxOps
    /\ Size(root) < MaxNodes
    /\ WriteLockFree
    /\ root' = PushNode(root, node_type)
    /\ additions' = PushAdditions(root, additions)
    /\ nops' = nops + 1
    /\ UNCHANGED <<poisoned, rhist, mutex, readers, stop, tick_counter, tick_rate, rpc, cpc,
                   size0, term, hist>>

\* lines 246-261.
MakeSub(node_type) ==
    /\ cpc = "callback"
    /\ nops < MaxOps
    /\ Size(root) < MaxNodes
    /\ WriteLockFree
    /\ root' = MakeSubNode(root, node_type)
    /\ additions' = MakeSubAdditions(additions)
    /\ nops' = nops + 1
    /\ UNCHANGED <<poisoned, rhist, mutex, readers, stop, tick_counter, tick_rate, rpc, cpc,
                   size0, term, hist>>

\* lines 264-269.
ReplaceRoot(node_type) ==
    /\ cpc = "callback"
    /\ nops < MaxOps
    /\ WriteLockFree
    /\ root' = ReplaceRootNode(root, node_type)
    /\ nops' = nops + 1
    /\ UNCHANGED <<poisoned, rhist, mutex, readers, stop, tick_counter, tick_rate, rpc, cpc,
                   additions, size0, term, hist>>

\* An erasing_println! that ends its line with no newline.
ErasingPrintln_NoNewline(text) ==
    /\ cpc = "callback"
    /\ nops < MaxOps
    /\ Len(printed) < MaxPrints
    /\ screen' = [screen EXCEPT ![cursor] = <<text>>]
    /\ printed' = Append(printed, text)
    /\ nops' = nops + 1
    /\ UNCHANGED <<poisoned, rhist, root, mutex, readers, stop, tick_counter, tick_rate, rpc, cpc,
                   additions, size0, cursor, cursor_visible, hist>>

\* erasing_println!, lines 369-372: ERASE_LINE, the text, a newline.
ErasingPrintln(text) ==
    /\ cpc = "callback"
    /\ nops < MaxOps
    /\ Len(printed) < MaxPrints
    /\ screen' = [screen EXCEPT ![cursor] = <<text>>]
    /\ cursor' = cursor + 1
    /\ printed' = Append(printed, text)
    /\ nops' = nops + 1
    /\ UNCHANGED <<poisoned, rhist, root, mutex, readers, stop, tick_counter, tick_rate, rpc, cpc,
                   additions, size0, cursor_visible, hist>>

\* lines 147-151: the callback returns.
CallbackReturn ==
    /\ cpc = "callback"
    /\ cpc' = "m_read"
    /\ UNCHANGED <<poisoned, rhist, root, mutex, readers, stop, tick_counter, tick_rate, rpc,
                   additions, size0, nops, term, hist>>

\* lines 153-156: self.root.read().
ModifyRead ==
    /\ cpc = "m_read"
    /\ readers' = readers \cup {"modify"}
    /\ cpc' = "m_display"
    /\ UNCHANGED <<poisoned, rhist, root, mutex, stop, tick_counter, tick_rate, rpc, additions,
                   size0, nops, term, hist>>

\* A modify frame that increments the tick counter.
ModifyFrame_Ticks ==
    /\ cpc = "m_display"
    /\ LET lines == Display(root, 0, tick_counter, TRUE)
           removed_lines == RemovedLines(additions)
           below == cursor + Len(lines)
       IN /\ screen' = EraseRows(PrintRows(screen, cursor, lines), below,
                                 removed_lines)
          /\ cursor' = GoBack(root, EraseCursor(below, removed_lines))
    /\ readers' = readers \ {"modify"}
    /\ cpc' = "m_unlock"
    /\ emitted' = Steps(EraseOutput(RemovedLines(additions)))
    /\ tick_counter' = tick_counter + 1
    /\ UNCHANGED <<poisoned, frames, lap, late, woken, root, mutex, stop, tick_rate, rpc, additions,
                   size0, nops, cursor_visible, printed, hist>>

\* lines 157-174: node.display(0, self.tick_counter.load(Relaxed), true);
\* erase the removed lines and move back up; node.go_back(); drop(node).
ModifyFrame ==
    /\ cpc = "m_display"
    /\ LET lines == Display(root, 0, tick_counter, TRUE)
           removed_lines == RemovedLines(additions)
           below == cursor + Len(lines)
       IN /\ screen' = EraseRows(PrintRows(screen, cursor, lines), below,
                                 removed_lines)
          /\ cursor' = GoBack(root, EraseCursor(below, removed_lines))
    /\ readers' = readers \ {"modify"}
    /\ cpc' = "m_unlock"
    /\ emitted' = Steps(EraseOutput(RemovedLines(additions)))
    /\ UNCHANGED <<poisoned, frames, lap, late, woken, root, mutex, stop, tick_counter, tick_rate, rpc, additions,
                   size0, nops, cursor_visible, printed, hist>>

\* line 176: drop(guard); modify returns.
ModifyUnlock ==
    /\ cpc = "m_unlock"
    /\ mutex' = "free"
    /\ additions' = 0
    /\ nops' = 0
    /\ size0' = Size(root)
    /\ cpc' = "idle"
    /\ emitted' = NoSteps
    /\ UNCHANGED <<poisoned, frames, lap, late, woken, root, readers, stop, tick_counter, tick_rate, rpc, term, hist>>

\* One step of a modify call whose callback takes its node types from
\* node_types.
ModifyWith(node_types) ==
    \/ ModifyCall
    \/ ModifyLock
    \/ Pop
    \/ \E node_type \in node_types : Push(node_type)
    \/ \E node_type \in node_types : MakeSub(node_type)
    \/ \E node_type \in node_types : ReplaceRoot(node_type)
    \/ \E text \in Texts : ErasingPrintln(text)
    \/ CallbackReturn
    \/ ModifyRead
    \/ ModifyFrame
    \/ ModifyUnlock

Modify == ModifyWith(NodeTypes)

(***************************************************************************)
(* Drop for CLIDisplayManager, lines 180-188, and the drop of its fields.  *)
(***************************************************************************)
\* line 182: self.stop.store(true, Relaxed).
DropStop ==
    /\ cpc = "idle"
    /\ stop' = TRUE
    /\ cpc' = "notify"
    /\ UNCHANGED <<poisoned, rhist, root, mutex, readers, tick_counter, tick_rate, rpc, additions,
                   size0, nops, term, hist>>

\* line 184: self.cv.notify_all() wakes the thread parked on the condition
\* variable, if it is parked.
DropNotify ==
    /\ cpc = "notify"
    /\ rpc' = IF rpc = "parked" THEN "reacquire" ELSE rpc
    /\ cpc' = "join"
    /\ woken' = IF rpc = "parked" THEN "notify" ELSE woken
    /\ UNCHANGED <<emitted, poisoned, frames, lap, late, root, mutex, readers, stop, tick_counter, tick_rate, additions,
                   size0, nops, term, hist>>

\* line 186: join() returns once the render thread has exited.
DropJoin ==
    /\ cpc = "join"
    /\ rpc = "done"
    /\ cpc' = "fields"
    /\ UNCHANGED <<poisoned, rhist, root, mutex, readers, stop, tick_counter, tick_rate, rpc,
                   additions, size0, nops, term, hist>>

\* The fields are dropped in declaration order: the tree, whose every node
\* prints a newline (lines 315-319), and last the CursorHideGuard, which
\* shows the cursor (lines 54-59).
DropFields ==
    /\ cpc = "fields"
    /\ cursor' = cursor + Size(root)
    /\ cursor_visible' = TRUE
    /\ cpc' = "joined"
    /\ UNCHANGED <<poisoned, rhist, root, mutex, readers, stop, tick_counter, tick_rate, rpc,
                   additions, size0, nops, screen, printed, hist>>

Teardown ==
    \/ DropStop
    \/ DropNotify
    \/ DropJoin
    \/ DropFields

Next ==
    \/ Render
    \/ Modify
    \/ Teardown

Spec == Init /\ [][Next]_vars

(***************************************************************************)
(* Failing writes to stdout.  print! and println! panic when the write     *)
(* fails (lines 286-296, 311, 334-336, 160-168); a panic unwinds the       *)
(* thread, drops its guards and poisons the mutex whose guard it held.     *)
(***************************************************************************)
\* lines 106 and 114: a print! of the frame fails in the render thread.  The
\* read guard and the mutex guard are dropped by the unwinding, the mutex
\* is poisoned, and the thread ends.
RenderFrameFails ==
    /\ rpc \in {"display0", "display"}
    /\ readers' = readers \ {"render"}
    /\ mutex' = "free"
    /\ poisoned' = TRUE
    /\ rpc' = "panicked"
    /\ UNCHANGED <<rhist, root, stop, tick_counter, tick_rate, cpc, additions,
                   size0, nops, term, hist>>

\* lines 157-172: a print! of the frame fails in modify.  The panic leaves
\* modify with the read guard and the mutex guard dropped and the mutex
\* poisoned.
ModifyFrameFails ==
    /\ cpc = "m_display"
    /\ readers' = readers \ {"modify"}
    /\ mutex' = "free"
    /\ poisoned' = TRUE
    /\ cpc' = "panicked"
    /\ UNCHANGED <<rhist, root, stop, tick_counter, tick_rate, rpc, additions,
                   size0, nops, term, hist>>

\* lines 99-101: mutex.lock() returns Err(PoisonError) and expect panics.
RenderLockPoisoned ==
    /\ rpc = "spawned"
    /\ mutex = "free"
    /\ poisoned
    /\ rpc' = "panicked"
    /\ UNCHANGED <<poisoned, rhist, root, mutex, readers, stop, tick_counter, tick_rate, cpc,
                   additions, size0, nops, term, hist>>

\* lines 121-128: the wait relocks a poisoned mutex, returns Err(PoisonError)
\* and expect panics; the guard inside the error is dropped.
RenderReacquirePoisoned ==
    /\ rpc = "reacquire"
    /\ mutex = "free"
    /\ poisoned
    /\ rpc' = "panicked"
    /\ UNCHANGED <<poisoned, rhist, root, mutex, readers, stop, tick_counter, tick_rate, cpc,
                   additions, size0, nops, term, hist>>

\* line 186: join() of a thread that panicked returns Err and unwrap panics.
DropJoinPanicked ==
    /\ cpc = "join"
    /\ rpc = "panicked"
    /\ cpc' = "panicked"
    /\ UNCHANGED <<poisoned, rhist, root, mutex, readers, stop, tick_counter, tick_rate, rpc,
                   additions, size0, nops, term, hist>>

Fault ==
    \/ RenderFrameFails
    \/ ModifyFrameFails
    \/ RenderLockPoisoned
    \/ RenderReacquirePoisoned
    \/ DropJoinPanicked

FaultNext ==
    \/ Next
    \/ Fault

FaultSpec == Init /\ [][FaultNext]_vars

(***************************************************************************)
(* The progress bar alone: a manager whose root is a ProgressBar, at the   *)
(* frame of a loop iteration, for every value of the cell and of the tick  *)
(* counter.                                                                *)
(***************************************************************************)
BarInit ==
    /\ \E cell \in Cells :
           root = New([kind |-> "ProgressBar", progress |-> cell])
    /\ tick_counter \in 0..MaxBarTick
    /\ tick_rate = 10
    /\ mutex = "render"
    /\ readers = {"render"}
    /\ stop = FALSE
    /\ rpc = "display"
    /\ cpc = "idle"
    /\ additions = 0
    /\ screen = PrintRows([r \in Rows |-> Blank], 0,
                          Display(root, 0, Max(tick_counter - 1, 0), TRUE))
    /\ cursor = 0
    /\ cursor_visible = FALSE
    /\ size0 = 1
    /\ printed = <<>>
    /\ nops = 0
    /\ trail = <<>>
    /\ undo = <<>>
    /\ pushes = 0
    /\ pops = 0
    /\ poisoned = FALSE
    /\ frames = tick_counter + 1
    /\ lap = IF tick_counter = 0 THEN [ticks |-> 0, waits |-> 0]
             ELSE [ticks |-> 1, waits |-> 1]
    /\ late = 0
    /\ woken = IF tick_counter = 0 THEN "none" ELSE "timeout"
    /\ emitted = NoSteps

BarNext == RenderFrame

BarSpec == BarInit /\ [][BarNext]_vars

(***************************************************************************)
(* The controlling thread alone: modify calls whose callbacks make push,   *)
(* make_sub, pop and replace_root calls, with the history of each callback *)
(* recorded.  The render thread and the terminal stay as they are.         *)
(***************************************************************************)
Op(name, arg) == [op |-> name, arg |-> arg]

Saved == [root |-> root, additions |-> additions]

\* lines 140-145.
TreeBegin ==
    /\ cpc = "idle"
    /\ mutex = "free"
    /\ mutex' = "modify"
    /\ additions' = 0
    /\ size0' = Size(root)
    /\ nops' = 0
    /\ trail' = <<>>
    /\ undo' = <<>>
    /\ cpc' = "callback"
    /\ UNCHANGED <<poisoned, rhist, root, readers, stop, tick_counter, tick_rate, rpc, term,
                   pushes, pops>>

\* lines 221-243.
TreePush(node_type) ==
    /\ cpc = "callback"
    /\ nops < MaxTreeOps
    /\ Size(root) < MaxTreeNodes
    /\ pushes < MaxPushes
    /\ root' = PushNode(root, node_type)
    /\ additions' = PushAdditions(root, additions)
    /\ nops' = nops + 1
    /\ trail' = Append(trail, Op("push", node_type))
    /\ undo' = <<Saved>> \o undo
    /\ pushes' = pushes + 1
    /\ UNCHANGED <<poisoned, rhist, mutex, readers, stop, tick_counter, tick_rate, rpc, cpc,
                   size0, term, pops>>

\* lines 246-261.
TreeMakeSub(node_type) ==
    /\ cpc = "callback"
    /\ nops < MaxTreeOps
    /\ Size(root) < MaxTreeNodes
    /\ pushes < MaxPushes
    /\ root' = MakeSubNode(root, node_type)
    /\ additions' = MakeSubAdditions(additions)
    /\ nops' = nops + 1
    /\ trail' = Append(trail, Op("make_sub", node_type))
    /\ undo' = <<Saved>> \o undo
    /\ pushes' = pushes + 1
    /\ UNCHANGED <<poisoned, rhist, mutex, readers, stop, tick_counter, tick_rate, rpc, cpc,
                   size0, term, pops>>

\* lines 198-218.
TreePop ==
    /\ cpc = "callback"
    /\ nops < MaxTreeOps
    /\ root' = PopNode(root)
    /\ additions' = PopAdditions(root, additions)
    /\ nops' = nops + 1
    /\ trail' = Append(trail, Op("pop", "none"))
    /\ undo' = IF undo = <<>> THEN <<>> ELSE Tail(undo)
    /\ pops' = IF Len(root.sub_nodes) = 0 THEN pops ELSE pops + 1
    /\ UNCHANGED <<poisoned, rhist, mutex, readers, stop, tick_counter, tick_rate, rpc, cpc,
                   size0, term, pushes>>

\* lines 264-269.
TreeReplaceRoot(node_type) ==
    /\ cpc = "callback"
    /\ nops < MaxTreeOps
    /\ root' = ReplaceRootNode(root, node_type)
    /\ nops' = nops + 1
    /\ trail' = Append(trail, Op("replace_root", node_type))
    /\ undo' = <<>>
    /\ UNCHANGED <<poisoned, rhist, mutex, readers, stop, tick_counter, tick_rate, rpc, cpc,
                   additions, size0, term, pushes, pops>>

\* lines 147-176: the callback returns and so does modify.
TreeEnd ==
    /\ cpc = "callback"
    /\ mutex' = "free"
    /\ cpc' = "idle"
    /\ UNCHANGED <<poisoned, rhist, root, readers, stop, tick_counter, tick_rate, rpc, additions,
                   size0, nops, term, hist>>

TreeNext ==
    \/ TreeBegin
    \/ \E node_type \in NodeTypes : TreePush(node_type)
    \/ \E node_type \in NodeTypes : TreeMakeSub(node_type)
    \/ TreePop
    \/ \E node_type \in NodeTypes : TreeReplaceRoot(node_type)
    \/ TreeEnd

TreeSpec == Init /\ [][TreeNext]_vars

(***************************************************************************)
(* Scheduling.  Every thread that can take a step eventually takes one; a  *)
(* thread blocked in Mutex::lock gets the mutex if it is free again and    *)
(* again; an elapsed timeout wakes the waiter.  Nothing obliges the        *)
(* controlling thread to call modify or to drop the manager, the callback  *)
(* to make another operation, or the condition variable to wake spuriously.*)
(***************************************************************************)
Fairness ==
    /\ SF_vars(RenderLock)
    /\ SF_vars(RenderReacquire)
    /\ SF_vars(ModifyLock)
    /\ WF_vars(RenderRead)
    /\ WF_vars(RenderFrame)
    /\ WF_vars(RenderCheck)
    /\ WF_vars(RenderTick)
    /\ WF_vars(RenderWait)
    /\ WF_vars(WakeTimeout)
    /\ WF_vars(CallbackReturn)
    /\ WF_vars(ModifyRead)
    /\ WF_vars(ModifyFrame)
    /\ WF_vars(ModifyUnlock)
    /\ WF_vars(DropNotify)
    /\ WF_vars(DropJoin)
    /\ WF_vars(DropFields)

\* The scheduling is the same whatever the nodes hold: under fair
\* scheduling every node is of one type.
LiveTypes == { [kind |-> "SpinningMessage", text |-> "b"] }

LiveInit == Init /\ root.node_type \in LiveTypes

LiveNext ==
    \/ Render
    \/ ModifyWith(LiveTypes)
    \/ Teardown

FairSpec == LiveInit /\ [][LiveNext]_vars /\ Fairness

(***************************************************************************)
(* Claims.                                                                 *)
(***************************************************************************)
InModify == cpc \in {"callback", "m_read", "m_display", "m_unlock"}

\* C1: while a modify call is between locking and unlocking the mutex, the
\* render thread is not yet started, parked in the wait, blocked on the
\* mutex, or gone; it holds no read guard and paints nothing, so no frame of
\* the render thread shows the tree in the middle of a callback.
C1_NoOverlap ==
    InModify =>
        /\ mutex = "modify"
        /\ rpc \in {"spawned", "parked", "reacquire", "done"}
        /\ "render" \notin readers

\* The render thread has woken and waits for the mutex while the callback
\* has made some of its edits.
C1_Witness ==
    /\ cpc = "callback"
    /\ nops = 2
    /\ rpc = "reacquire"

\* C2: once the stop flag is set, the render thread exits, the join returns
\* and the cursor is shown again.
C2_TeardownCompletes ==
    stop ~> (rpc = "done" /\ cpc = "joined" /\ cursor_visible)

\* C3: a modify call that has started returns.
C3_ModifyReturns ==
    (cpc = "lock") ~> (cpc = "idle")

\* A modify call is about to return although the loop waits without
\* timeout.
C3_Witness ==
    /\ cpc = "m_unlock"
    /\ nops > 0
    /\ tick_rate = 0
    /\ rpc = "parked"

\* C4: when the frame of a modify call is painted and the tree has fewer
\* nodes than when the call began, every row below the new frame is blank.
C4_StaleLinesErased ==
    (cpc = "m_unlock" /\ Size(root) < size0) =>
        \A r \in Rows : r >= cursor + Size(root) => screen[r] = Blank

\* A call has removed two nodes.
C4_Witness ==
    /\ cpc = "m_unlock"
    /\ size0 - Size(root) = 2

\* C5: the texts emitted by erasing_println! stay on the top rows, in
\* order; every frame starts on the row below them, and the frame of the
\* modify call shows the whole tree there.
C5_EmittedLinesKept ==
    /\ \A i \in 1..Len(printed) : screen[i - 1] = <<printed[i]>>
    /\ cpc # "joined" => cursor = Len(printed)
    /\ cpc = "m_unlock" =>
           LET lines == Display(root, 0, tick_counter, TRUE)
           IN \A i \in 1..Len(lines) : screen[Len(printed) + i - 1] = lines[i]

\* The render loop has painted a frame after a text was emitted.
C5_Witness ==
    /\ printed # <<>>
    /\ rpc = "tick"

(***************************************************************************)
(* The tree as a set of positions: a position is the sequence of child     *)
(* indices that leads from the root to a node.                             *)
(***************************************************************************)
RECURSIVE Paths(_)
Paths(node) ==
    {<<>>} \cup UNION { { <<i>> \o p : p \in Paths(node.sub_nodes[i]) } :
                        i \in 1..Len(node.sub_nodes) }

RECURSIVE At(_, _)
At(node, path) ==
    IF path = <<>> THEN node ELSE At(node.sub_nodes[Head(path)], Tail(path))

Arity(node, path) == Len(At(node, path).sub_nodes)

\* The positions of the tree with the content at each.
Labels(node) == { <<p, At(node, p).node_type>> : p \in Paths(node) }

\* The position reached from the root by going to the last child as long
\* as there is one.
LastChildPath(node) ==
    CHOOSE p \in Paths(node) :
        /\ Arity(node, p) = 0
        /\ \A i \in 1..Len(p) : p[i] = Arity(node, SubSeq(p, 1, i - 1))

\* The position where the descent "to the last child as long as that last
\* child itself has children" stops.
OpenBranch(node) ==
    IF Arity(node, <<>>) = 0 THEN <<>> ELSE Front(LastChildPath(node))

Step(name) ==
    /\ Len(trail') = Len(trail) + 1
    /\ Last(trail').op = name

\* C6: push adds exactly one node, a leaf, as the new last child of the
\* node where the descent stops (the root when the root has no children);
\* every node there was keeps its position, its content and its children.
C6_Append ==
    [][Step("push") =>
        LET at == OpenBranch(root)
            new == at \o <<Arity(root, at) + 1>>
        IN /\ Labels(root') = Labels(root) \cup {<<new, Last(trail').arg>>}
           /\ new \notin Paths(root)
           /\ Arity(root', new) = 0
           /\ Size(root') = Size(root) + 1]_vars

\* A push onto a tree whose last child has children of its own.
C6_Witness ==
    /\ trail # <<>>
    /\ Last(trail).op = "push"
    /\ Len(LastChildPath(root)) = 2
    /\ Last(LastChildPath(root)) = 2

\* C7: make_sub adds the new node as a child of the deepest node of the
\* last-child path, so that path is one node longer and ends at the new
\* leaf; a push that follows at once adds its node as the next sibling of
\* that leaf.
C7_Descend ==
    [][/\ Step("make_sub") =>
            LET deep == LastChildPath(root)
                new == deep \o <<Arity(root, deep) + 1>>
            IN /\ Labels(root') = Labels(root) \cup {<<new, Last(trail').arg>>}
               /\ new \notin Paths(root)
               /\ LastChildPath(root') = new
               /\ Len(LastChildPath(root')) = Len(LastChildPath(root)) + 1
       /\ (Step("push") /\ trail # <<>> /\ Last(trail).op = "make_sub") =>
            LET x == LastChildPath(root)
                y == Front(x) \o <<Last(x) + 1>>
            IN /\ Labels(root') = Labels(root) \cup {<<y, Last(trail').arg>>}
               /\ y \notin Paths(root)]_vars

\* A make_sub below the root's child, followed at once by a push.
C7_Witness ==
    /\ Len(trail) >= 2
    /\ trail[Len(trail) - 1].op = "make_sub"
    /\ Last(trail).op = "push"
    /\ Len(LastChildPath(root)) = 2

\* C8: pop on a tree with more than the root removes exactly the leaf at
\* the end of the last-child path, the node on the bottom row of the
\* frame, and lowers the counter by one; pop on a root-only tree changes
\* neither the tree nor the counter.
C8_Remove ==
    [][Step("pop") =>
        IF Size(root) > 1
        THEN LET deep == LastChildPath(root)
                 rows == Display(root, 0, tick_counter, TRUE)
             IN /\ Labels(root') = Labels(root) \ {<<deep, At(root, deep).node_type>>}
                /\ Size(root') = Size(root) - 1
                /\ Last(rows) = Line(Len(deep), tick_counter, TRUE,
                                     At(root, deep).node_type)
                /\ additions' = additions - 1
        ELSE /\ root' = root
             /\ additions' = additions]_vars

\* A pop has removed a grandchild of the root, and a pop has found the
\* tree root-only.
C8_Witness ==
    /\ Len(trail) = 4
    /\ trail[3].op = "pop"
    /\ trail[4].op = "pop"
    /\ Size(root) = 1
    /\ pops = 2

\* C9: a pop that follows insertions not yet removed restores the tree and
\* the counter as they were before the last of them; so n pops after n
\* insertions restore what there was before the first.
C9_RemoveInvertsInsert ==
    [][(Step("pop") /\ undo # <<>>) =>
        /\ root' = Head(undo).root
        /\ additions' = Head(undo).additions]_vars

\* make_sub, make_sub, pop, pop.
C9_Witness ==
    /\ Len(trail) = 4
    /\ trail[1].op = "make_sub"
    /\ trail[2].op = "make_sub"
    /\ trail[3].op = "pop"
    /\ trail[4].op = "pop"
    /\ additions = 0

\* C10: the tree has one node more than the insertions made less the
\* removals that removed a node, the counter is the node count less the
\* node count at the start of the callback, and push and make_sub change
\* both by +1, an effective pop by -1, a pop on a root-only tree and
\* replace_root by 0.
C10_Counting ==
    [][/\ Size(root') = 1 + pushes' - pops'
       /\ additions' = Size(root') - size0'
       /\ (Step("push") \/ Step("make_sub")) =>
              /\ Size(root') = Size(root) + 1
              /\ additions' = additions + 1
       /\ Step("pop") =>
              LET d == IF Size(root) = 1 THEN 0 ELSE 1
              IN /\ Size(root') = Size(root) - d
                 /\ additions' = additions - d
       /\ Step("replace_root") =>
              /\ Size(root') = Size(root)
              /\ additions' = additions]_vars

\* A callback has ended after a push onto the root-only tree, a pop and a
\* pop that found the tree root-only; an earlier callback had inserted too.
C10_Witness ==
    /\ cpc = "idle"
    /\ Len(trail) = 3
    /\ trail[1].op = "push"
    /\ trail[2].op = "pop"
    /\ trail[3].op = "pop"
    /\ pushes = 3
    /\ pops = 3

\* C11: replace_root changes the content of the root and nothing else:
\* the children of the root, every position below it with its content, the
\* node count and the counter stay as they were.
C11_ReplaceRoot ==
    [][Step("replace_root") =>
        /\ root'.node_type = Last(trail').arg
        /\ root'.sub_nodes = root.sub_nodes
        /\ Paths(root') = Paths(root)
        /\ \A p \in Paths(root) \ {<<>>} :
               At(root', p).node_type = At(root, p).node_type
        /\ Size(root') = Size(root)
        /\ additions' = additions]_vars

\* The root of a tree with a grandchild has got another content.
C11_Witness ==
    /\ trail # <<>>
    /\ Last(trail).op = "replace_root"
    /\ Len(LastChildPath(root)) = 2
    /\ Len(trail) >= 2
    /\ trail[Len(trail) - 1].op = "replace_root"
    /\ trail[Len(trail) - 1].arg # Last(trail).arg

(***************************************************************************)
(* The wait of the render loop, lines 119-129.                             *)
(***************************************************************************)
\* C12 as stated: with tick rate zero the parked render loop paints no
\* frame and does not advance the tick counter, and a modify call notifies
\* the condition variable, so that when the call returns the parked loop
\* has been woken.
C12_MutationWakes ==
    [][(tick_rate = 0 /\ rpc = "parked") =>
          /\ frames' = frames
          /\ tick_counter' = tick_counter
          /\ (cpc = "m_unlock" /\ cpc' = "idle") => rpc' = "reacquire"]_vars

\* C12, amended: with tick rate zero the parked render loop paints no frame
\* and does not advance the tick counter; no timeout ends its wait, only the
\* notify_all of teardown or a spurious wake-up of the condition variable
\* does; teardown's notify_all wakes a loop that is parked, and that loop
\* then exits without another iteration; no step of a modify call wakes the
\* parked loop, the call paints its own frame instead.
C12_ParkedLoop ==
    [][/\ (tick_rate = 0 /\ rpc = "parked") =>
             /\ frames' = frames
             /\ tick_counter' = tick_counter
             /\ rpc' # "parked" =>
                    /\ rpc' = "reacquire"
                    /\ woken' \in {"notify", "spurious"}
             /\ (cpc = "notify" /\ cpc' # cpc) =>
                    /\ rpc' = "reacquire"
                    /\ woken' = "notify"
             /\ (InModify \/ cpc = "lock") => rpc' = "parked" \/ woken' = "spurious"
             /\ (cpc = "m_unlock" /\ cpc' = "idle") => rpc' = "parked"
       /\ (woken = "notify" /\ rpc \in {"reacquire", "check"}) =>
             /\ stop
             /\ rpc' \in {"reacquire", "check", "done"}
             /\ frames' = frames]_vars

\* A modify call has painted its frame while the loop of a manager with tick
\* rate zero stayed parked.
C12_Witness ==
    /\ tick_rate = 0
    /\ rpc = "parked"
    /\ cpc = "m_unlock"
    /\ Size(root) > 1
    /\ frames = 2
    /\ tick_counter = 1

(***************************************************************************)
(* Failing writes and poisoned locks.                                      *)
(***************************************************************************)
\* C13: a failing write to the terminal during a frame is ignored: it ends
\* neither the render thread nor the call of the controlling thread.
C13_WriteFailuresIgnored ==
    /\ rpc # "panicked"
    /\ cpc # "panicked"

\* C14: once the scheduling mutex is poisoned, every operation that locks it
\* aborts: no modify call is past its lock (it edits no tree and paints no
\* frame) and the render thread runs no iteration.
C14_PoisonAborts ==
    poisoned =>
        /\ ~InModify
        /\ rpc \in {"spawned", "parked", "reacquire", "panicked"}

(***************************************************************************)
(* The progress bar, lines 338-357.                                        *)
(***************************************************************************)
Min(a, b) == IF a < b THEN a ELSE b

\* the fill of the bar the code paints for a cell value
Fill(cell) == Count(ProgressBarDisplay(cell, 0), "#")

\* C15: for every cell value 0..255 and every tick the painted bar is '['
\* + f '#' + (one frontier glyph iff f < 20) + blanks + ']' with
\* f = min(20, cell div 5); f is non-decreasing in the cell value and at
\* most 20; the interior is 20 characters wide for every cell value; at
\* cell = 100 the bar is '[' + 20 '#' + ']'.
C15_ProgressBar ==
    (rpc = "tick" /\ root.node_type.kind = "ProgressBar") =>
        LET cell == root.node_type.progress
            row == screen[cursor]
            f == Min(20, cell \div 5)
            glyph == Spinner[(tick_counter % 4) + 1]
            interior == SubSeq(row, 2, Len(row) - 1)
        IN /\ row[1] = "["
           /\ row[Len(row)] = "]"
           /\ Len(interior) = 20
           /\ \A i \in 1..20 :
                  interior[i] = IF i <= f THEN "#"
                                ELSE IF i = f + 1 THEN glyph
                                ELSE " "
           /\ Count(row, "#") = f
           /\ Count(row, glyph) = IF f < 20 THEN 1 ELSE 0
           /\ \A smaller \in Cells : smaller <= cell => Fill(smaller) <= f
           /\ cell >= 100 => interior = [i \in 1..20 |-> "#"]

\* The bar of a cell holding 20 has been painted at the last glyph of the
\* cycle: four filled cells, the glyph, fifteen blanks.
C15_Witness ==
    /\ rpc = "tick"
    /\ root.node_type.kind = "ProgressBar"
    /\ root.node_type.progress = 20
    /\ tick_counter = 3
    /\ screen[0] = <<"[", "#", "#", "#", "#", "|", " ", " ", " ", " ", " ",
                     " ", " ", " ", " ", " ", " ", " ", " ", " ", " ", "]">>

(***************************************************************************)
(* Frames, lines 103-117 and 153-173.                                      *)
(***************************************************************************)
\* the step in which the render thread paints a frame
RenderFrameStep == rpc \in {"display0", "display"} /\ rpc' \in {"check", "tick"}

\* the step in which a modify call paints its frame
ModifyFrameStep == cpc = "m_display" /\ cpc' = "m_unlock"

\* C16: every frame, of the render thread or of a modify call, the latter
\* also when it erases removed lines, writes exactly one row per node of the
\* tree, starting at the row of the cursor, changes no row above it, and
\* leaves the cursor on the row where the frame started.
C16_CursorReturns ==
    [][(RenderFrameStep \/ ModifyFrameStep) =>
          /\ cursor' = cursor
          /\ \A r \in Rows :
                 /\ (r >= cursor /\ r < cursor + Size(root)) => screen'[r] # Blank
                 /\ r < cursor => screen'[r] = screen[r]
                 /\ (r >= cursor + Size(root) /\ screen'[r] # screen[r]) =>
                        /\ ModifyFrameStep
                        /\ screen'[r] = Blank
          /\ Cardinality({r \in Rows : r >= cursor /\ screen'[r] # Blank})
                 = Size(root)]_vars

\* A modify call that printed a line and removed two nodes has painted its
\* frame from row 1, erased the two rows below it and is back on row 1.
C16_Witness ==
    /\ cpc = "m_unlock"
    /\ additions = -2
    /\ printed # <<>>
    /\ cursor = 1
    /\ screen[1] # Blank
    /\ screen[2] = Blank
    /\ screen[3] = Blank

(***************************************************************************)
(* The erase loops of modify, lines 149-171.                               *)
(***************************************************************************)
\* C17 as stated: a modify call whose net line change is -k with k > 0
\* emits exactly k erase-line steps and exactly k additional cursor-up
\* steps; a call whose net change is zero or positive emits none.
C17_FullCycles ==
    cpc = "m_unlock" =>
        LET k == size0 - Size(root)
        IN IF k > 0
           THEN emitted.erase = k /\ emitted.up = k
           ELSE emitted.erase = 0 /\ emitted.up = 0

\* C17, amended: a modify call whose net line change is -k with k > 0 emits
\* exactly k erase-line steps, k - 1 newlines between them and exactly
\* k - 1 additional cursor-up steps, which blanks the k rows below the
\* frame and brings the cursor back to the row below the frame; a call
\* whose net change is zero or positive emits no such step.
C17_EraseSteps ==
    [][ModifyFrameStep =>
          LET k == size0 - Size(root)
              below == cursor + Size(root)
          IN /\ k = 0 - additions
             /\ IF k > 0
                THEN emitted' = [erase |-> k, newline |-> k - 1, up |-> k - 1]
                ELSE emitted' = NoSteps
             /\ \A r \in Rows :
                    (r >= below /\ r < below + emitted'.erase) => screen'[r] = Blank
             /\ cursor' + Size(root) = below + emitted'.newline - emitted'.up]_vars

\* A modify call that removed two nodes has emitted two erase-line steps,
\* one newline and one cursor-up.
C17_Witness ==
    /\ cpc = "m_unlock"
    /\ size0 = 3
    /\ Size(root) = 1
    /\ emitted = [erase |-> 2, newline |-> 1, up |-> 1]

(***************************************************************************)
(* The cycle of the render thread, lines 99-130.                           *)
(***************************************************************************)
\* C18 as stated: between any two consecutive frames painted by the render
\* thread the tick counter has been incremented exactly once and the thread
\* has waited on the condition variable exactly once.
C18_StrictCycle ==
    [][(RenderFrameStep /\ frames >= 1) =>
          lap = [ticks |-> 1, waits |-> 1]]_vars

\* C18, amended: the render thread locks the mutex once and holds it
\* whenever it paints; it paints an initial frame and then, as long as the
\* stop flag is unset when checked, repeats: paint a frame, increment the
\* tick counter, wait, check the stop flag.  The first frame of the loop
\* follows the initial frame with no increment and no wait between them;
\* between any two later consecutive frames the counter is incremented
\* exactly once and the thread waits exactly once.
C18_Cycle ==
    [][/\ RenderFrameStep =>
             /\ mutex = "render"
             /\ rpc = "display0" <=> frames = 0
             /\ lap = IF frames <= 1 THEN [ticks |-> 0, waits |-> 0]
                      ELSE [ticks |-> 1, waits |-> 1]
       /\ (rpc = "tick" /\ rpc' # rpc) =>
             /\ lap = [ticks |-> 0, waits |-> 0]
             /\ tick_counter' = tick_counter + 1
             /\ rpc' = "wait"
       /\ (rpc = "wait" /\ rpc' # rpc) =>
             /\ lap = [ticks |-> 1, waits |-> 0]
             /\ rpc' = "parked"
       /\ (rpc = "check" /\ rpc' # rpc) => rpc' = IF stop THEN "done" ELSE "read"]_vars

\* The render thread has painted its third frame: the initial frame, the
\* first loop frame right after it, and a frame after one increment and one
\* wait.
C18_Witness ==
    /\ frames = 3
    /\ rpc = "tick"
    /\ tick_counter = 1
    /\ lap = [ticks |-> 0, waits |-> 0]

(***************************************************************************)
(* The tick counter, lines 85, 119 and 157.                                *)
(***************************************************************************)
\* C19 as stated: the tick counter never decreases and every render pass
\* increments it exactly once, the frame of a modify call included.
C19_EveryPassTicks ==
    [][/\ tick_counter' >= tick_counter
       /\ ModifyFrameStep => tick_counter' = tick_counter + 1]_vars

\* C19, amended: the tick counter never decreases; the only step that
\* changes it is the increment that follows each frame painted inside the
\* loop of the render thread, by exactly one, so that after the increment
\* the counter equals the number of loop frames painted; the initial frame
\* of the render thread and the frame of a modify call (and every other
\* step of the controlling thread) leave it unchanged.
C19_TickCounter ==
    [][/\ tick_counter' >= tick_counter
       /\ tick_counter' # tick_counter =>
             /\ rpc = "tick" /\ rpc' = "wait"
             /\ tick_counter' = tick_counter + 1
             /\ lap = [ticks |-> 0, waits |-> 0]
             /\ tick_counter' = frames - 1
       /\ (rpc = "tick" /\ rpc' # rpc) => tick_counter' = tick_counter + 1
       /\ RenderFrameStep => tick_counter' = tick_counter
       /\ cpc' # cpc => tick_counter' = tick_counter]_vars

\* A modify call has painted its frame after the first increment of the
\* render loop, and the counter still holds 1.
C19_Witness ==
    /\ cpc = "m_unlock"
    /\ tick_rate # 0
    /\ rpc \in {"parked", "reacquire"}
    /\ tick_counter = 1
    /\ frames = 2

(***************************************************************************)
(* The stop flag, lines 110 and 180-188.                                   *)
(***************************************************************************)
\* C20: once the stop flag is set the render thread begins at most one more
\* frame before it exits; a thread that returns from its wait, or reaches
\* the loop condition, with the flag set exits without painting; the thread
\* never exits while the flag is unset; the flag is never unset again.
C20_StopExits ==
    [][/\ late' <= 1
       /\ late' # late => stop /\ late' = late + 1 /\ rpc \in {"read0", "read"}
       /\ (stop /\ rpc \in {"reacquire", "check"}) =>
             /\ rpc' \in {"reacquire", "check", "done"}
             /\ rpc = "check" => rpc' \in {"check", "done"}
             /\ frames' = frames
             /\ late' = late
       /\ rpc' = "done" => stop'
       /\ rpc = "done" => rpc' = "done" /\ frames' = frames
       /\ stop => stop']_vars

\* The render thread began a loop frame after the stop flag was set, woke
\* from the wait that followed and has exited.
C20_Witness ==
    /\ rpc = "done"
    /\ stop
    /\ late = 1
    /\ tick_counter = 2
    /\ frames = 3

====
